---- MODULE Spec2Model ----
(***************************************************************************)
(* Association-manifest handling of jwst_pipeline_mos_workshop.ipynb.      *)
(*                                                                         *)
(* Two specifications share the definitions below:                         *)
(*   Spec        the notebook's association cells and the pipeline calls   *)
(*               that consume them, run top to bottom, one statement per   *)
(*               step, in an environment that may fail (missing working    *)
(*               directory, a write that fails partway, a call that        *)
(*               raises).  An exception stops the run.                     *)
(*   SpecBuilder the notebook's manifest statements applied as operations  *)
(*               to inputs drawn from bounded sets (lists of paths, rules, *)
(*               product indices), for the claims that quantify over       *)
(*               every input.                                              *)
(*   SpecPair    the two grism cells run by two callers, their steps       *)
(*               interleaved in every order.                               *)
(***************************************************************************)
EXTENDS Integers, Sequences, FiniteSets, TLC

VARIABLES
    pc,        \* Spec: index of the next statement of Prog, or Done / Aborted
    asn,       \* Spec: the notebook's three association variables
    fs,        \* Spec: content of each manifest path (NoFile when absent)
    cwd,       \* Spec: whether the working directory './' exists
    handles,   \* Spec: the file handles that are open
    err,       \* Spec: the exception that stopped the run, or NoErr
    data,      \* Spec: the notebook variable `data` (json.load's result)
    calls,     \* Spec: the pipeline calls made so far, in order
    dumped,    \* Spec: the associations whose dump() has been evaluated
    prior,     \* Spec: what the destination held when the last open(.., 'w') began
    man,       \* SpecBuilder: the manifest under construction
    pre,       \* SpecBuilder: the manifest before the last operation
    op,        \* SpecBuilder: the last operation, its arguments and its error
    text,      \* SpecBuilder: the text the last serialize produced
    loaded,    \* SpecBuilder: what the last deserialize returned
    at         \* SpecPair: how far each of the two grism callers has come

vars == <<pc, asn, fs, cwd, handles, err, data, calls, dumped, prior,
          man, pre, op, text, loaded, at>>

nbVars == <<pc, asn, fs, cwd, handles, err, data, calls, dumped, prior>>
bdVars == <<man, pre, op, text, loaded>>

----------------------------------------------------------------------------
(* Bounds of SpecBuilder.                                                  *)

\* longest list of paths handed to the builder
MaxLen == 2
\* most members a product is grown to by appends
MaxMembers == 3

----------------------------------------------------------------------------
(* Values.                                                                 *)

NoErr == "none"
NoAsn == [none |-> TRUE]
NoFile == <<[k |-> "nofile", v |-> ""]>>
NoData == [none |-> TRUE]
Absent == "<absent>"

\* the paths the notebook binds
caldirectfile == "outputs/NIRISS_F115W_direct_dit1_cal.fits"
ratespecfileC == "outputs/NIRISS_F115W_WFSSC_dit1_rate.fits"
ratespecfileR == "outputs/NIRISS_F115W_WFSSR_dit1_rate.fits"
object_cat_file == "inputs/NIRISS_F115W_direct_dit1_cat_clean.ecsv"
association_direct_file == "./NIRISS_F115W_direct_dit1_stage3.json"
association_grismC_file == "./NIRISS_F115W_WFSSC_dit1_stage2.json"
association_grismR_file == "./NIRISS_F115W_WFSSR_dit1_stage2.json"

\* the files Stage 3 of the direct image writes to outputs/: the rectified
\* image, the object catalog and the segmentation image
Stage3Products ==
    {"outputs/NIRISS_F115W_direct_dit1_i2d.fits",
     "outputs/NIRISS_F115W_direct_dit1_cat.ecsv",
     "outputs/NIRISS_F115W_direct_dit1_segm.fits"}

\* the two rules the notebook imports
DMS_Level3_Base == "DMS_Level3_Base"
DMSLevel2bBase == "DMSLevel2bBase"
Rules == {DMS_Level3_Base, DMSLevel2bBase}

\* the role build gives every member, and the asn_type it starts with
ScienceRole == "science"
DefaultAsnType == "<default>"

----------------------------------------------------------------------------
(* Python values and statements on a manifest.  A manifest is              *)
(*   [asn_rule, asn_type, products: Seq([name, members: Seq(member)])]     *)
(* and a member a mapping with the optional keys expname and exptype       *)
(* (Absent when the key is not set, as in the {} the notebook appends).    *)

Ok(v) == [err |-> NoErr, val |-> v]
Raise(e, v) == [err |-> e, val |-> v]

EmptyMember == [expname |-> Absent, exptype |-> Absent]

\* Python's list index: 1-based position of seq[k], 0 when k raises IndexError.
\* A negative k counts from the end.
PyIndex(n, k) ==
    IF k >= 0 /\ k < n THEN k + 1
    ELSE IF k < 0 /\ -k <= n THEN n + k + 1
    ELSE 0

\* asn_from_list with the members in reverse order
asn_from_list_reversed(items, rule, product_name) ==
    IF Len(items) = 0
    THEN Raise("InvalidInputError", NoAsn)
    ELSE Ok([asn_rule |-> rule,
             asn_type |-> DefaultAsnType,
             products |-> << [name |-> product_name,
                              members |-> [i \in 1..Len(items) |->
                                  [expname |-> items[Len(items) + 1 - i],
                                   exptype |-> ScienceRole]]] >>])

\* asn_from_list without the check for an empty list
asn_from_list_unchecked(items, rule, product_name) ==
    Ok([asn_rule |-> rule,
        asn_type |-> DefaultAsnType,
        products |-> << [name |-> product_name,
                         members |-> [i \in 1..Len(items) |->
                             [expname |-> items[i],
                              exptype |-> ScienceRole]]] >>])

\* asn_from_list with the first path left out of the members
asn_from_list_skipFirst(items, rule, product_name) ==
    IF Len(items) = 0
    THEN Raise("InvalidInputError", NoAsn)
    ELSE Ok([asn_rule |-> rule,
             asn_type |-> DefaultAsnType,
             products |-> << [name |-> product_name,
                              members |-> [i \in 1..(Len(items) - 1) |->
                                  [expname |-> items[i + 1],
                                   exptype |-> ScienceRole]]] >>])

\* build: one product named product_name, one member per path in the given
\* order, each with the science role; the empty list is refused.
asn_from_list(items, rule, product_name) ==
    IF Len(items) = 0
    THEN Raise("InvalidInputError", NoAsn)
    ELSE Ok([asn_rule |-> rule,
             asn_type |-> DefaultAsnType,
             products |-> << [name |-> product_name,
                              members |-> [i \in 1..Len(items) |->
                                  [expname |-> items[i],
                                   exptype |-> ScienceRole]]] >>])

\* an assignment that accepts only the tag the notebook gives its Stage 3
\* association
set_asn_type_validated(m, tag) ==
    IF tag = "Image3" THEN Ok([m EXCEPT !.asn_type = tag])
    ELSE Raise("ConfigurationError", m)

\* association['asn_type'] = tag
set_asn_type(m, tag) == Ok([m EXCEPT !.asn_type = tag])

\* the append with an index past the end taken as the last product
MembersAppendEmpty_clamped(m, k) ==
    LET p == PyIndex(Len(m.products), k) IN
    IF Len(m.products) = 0 THEN Raise("IndexError", m)
    ELSE Ok([m EXCEPT !.products[IF p = 0 THEN Len(m.products) ELSE p].members =
                          Append(@, EmptyMember)])

\* association['products'][k]['members'].append({})
MembersAppendEmpty(m, k) ==
    LET p == PyIndex(Len(m.products), k) IN
    IF p = 0 THEN Raise("IndexError", m)
    ELSE Ok([m EXCEPT !.products[p].members = Append(@, EmptyMember)])

\* the fields assigned at the first position instead
MemberPos_first == 1 - 1

\* the position the notebook assigns the appended member's fields at
MemberPos == 1

\* an assignment that puts a new mapping {key: value} at the position
MemberSetItem_replace(m, k, key, value) ==
    LET p == PyIndex(Len(m.products), k) IN
    IF p = 0 THEN Raise("IndexError", m)
    ELSE LET q == PyIndex(Len(m.products[p].members), MemberPos) IN
         IF q = 0 THEN Raise("IndexError", m)
         ELSE Ok([m EXCEPT !.products[p].members[q] =
                               [EmptyMember EXCEPT ![key] = value]])

\* association['products'][k]['members'][1][key] = value
MemberSetItem(m, k, key, value) ==
    LET p == PyIndex(Len(m.products), k) IN
    IF p = 0 THEN Raise("IndexError", m)
    ELSE LET q == PyIndex(Len(m.products[p].members), MemberPos) IN
         IF q = 0 THEN Raise("IndexError", m)
         ELSE Ok([m EXCEPT !.products[p].members[q][key] = value])

\* The notebook's three statements that add a member, as one operation: each
\* runs on the result of the one before, and the first exception ends it.
append_member(m, k, path, role) ==
    LET s1 == MembersAppendEmpty(m, k) IN
    IF s1.err # NoErr THEN s1
    ELSE LET s2 == MemberSetItem(s1.val, k, "expname", path) IN
         IF s2.err # NoErr THEN s2
         ELSE MemberSetItem(s2.val, k, "exptype", role)

----------------------------------------------------------------------------
(* Serialization.  A text is the sequence of its JSON tokens: punctuation  *)
(* P("{"), and string literals S("...").  White space carries nothing.     *)

P(c) == [k |-> "p", v |-> c]
S(c) == [k |-> "s", v |-> c]

RECURSIVE JoinComma(_)
JoinComma(parts) ==
    IF Len(parts) = 0 THEN <<>>
    ELSE IF Len(parts) = 1 THEN parts[1]
    ELSE parts[1] \o <<P(",")>> \o JoinComma(Tail(parts))

Pair(key, value) == <<S(key), P(":"), S(value)>>

\* a member is written with the keys it has, in insertion order
dumpMember(mb) ==
    <<P("{")>>
    \o (IF mb.expname = Absent THEN <<>> ELSE Pair("expname", mb.expname))
    \o (IF mb.expname = Absent \/ mb.exptype = Absent THEN <<>> ELSE <<P(",")>>)
    \o (IF mb.exptype = Absent THEN <<>> ELSE Pair("exptype", mb.exptype))
    \o <<P("}")>>

dumpProduct(pr) ==
    <<P("{")>> \o Pair("name", pr.name) \o <<P(","), S("members"), P(":"), P("[")>>
    \o JoinComma([i \in 1..Len(pr.members) |-> dumpMember(pr.members[i])])
    \o <<P("]"), P("}")>>

\* association.dump()[1]
dump(m) ==
    <<P("{")>> \o Pair("asn_type", m.asn_type) \o <<P(",")>>
    \o Pair("asn_rule", m.asn_rule)
    \o <<P(","), S("products"), P(":"), P("[")>>
    \o JoinComma([i \in 1..Len(m.products) |-> dumpProduct(m.products[i])])
    \o <<P("]"), P("}")>>

(* json.load: a recursive-descent reading of the tokens.  Every parser     *)
(* returns [ok, val, next]: next is the position after what it read.       *)

Fail == [ok |-> FALSE, val |-> NoData, next |-> 0]
Got(v, n) == [ok |-> TRUE, val |-> v, next |-> n]

\* Str stands for any string literal in a pattern
Str == [k |-> "s*", v |-> ""]

\* the tokens from position i on start with the pattern
Matches(t, i, pat) ==
    /\ i >= 1
    /\ i + Len(pat) - 1 <= Len(t)
    /\ \A j \in 1..Len(pat) :
          IF pat[j] = Str THEN t[i + j - 1].k = "s" ELSE t[i + j - 1] = pat[j]

\* a reading of a member that keeps only its expname
ParseMember_pathOnly(t, i) ==
    CASE Matches(t, i, <<P("{"), S("expname"), P(":"), Str, P(","),
                         S("exptype"), P(":"), Str, P("}")>>) ->
             Got([expname |-> t[i + 3].v, exptype |-> Absent], i + 9)
      [] Matches(t, i, <<P("{"), S("expname"), P(":"), Str, P("}")>>) ->
             Got([expname |-> t[i + 3].v, exptype |-> Absent], i + 5)
      [] Matches(t, i, <<P("{"), P("}")>>) -> Got(EmptyMember, i + 2)
      [] OTHER -> Fail

\* an object of a member: the keys expname and exptype, each optional
ParseMember(t, i) ==
    CASE Matches(t, i, <<P("{"), S("expname"), P(":"), Str, P(","),
                         S("exptype"), P(":"), Str, P("}")>>) ->
             Got([expname |-> t[i + 3].v, exptype |-> t[i + 7].v], i + 9)
      [] Matches(t, i, <<P("{"), S("expname"), P(":"), Str, P("}")>>) ->
             Got([expname |-> t[i + 3].v, exptype |-> Absent], i + 5)
      [] Matches(t, i, <<P("{"), S("exptype"), P(":"), Str, P("}")>>) ->
             Got([expname |-> Absent, exptype |-> t[i + 3].v], i + 5)
      [] Matches(t, i, <<P("{"), P("}")>>) -> Got(EmptyMember, i + 2)
      [] OTHER -> Fail

\* after an element of an array: "]" ends it, "," announces the next one
AfterItem(t, i) ==
    CASE Matches(t, i, <<P("]")>>) -> "end"
      [] Matches(t, i, <<P(",")>>) -> "more"
      [] OTHER -> "bad"

\* member {, member} ]   (or ] at once, when first); mb is the member read
\* at the current position
RECURSIVE ParseMembers(_, _, _), MembersAfter(_, _, _)
MembersAfter(t, acc, mb) ==
    CASE ~mb.ok -> Fail
      [] mb.ok /\ AfterItem(t, mb.next) = "end" ->
             Got(Append(acc, mb.val), mb.next + 1)
      [] mb.ok /\ AfterItem(t, mb.next) = "more" ->
             ParseMembers(t, mb.next + 1, Append(acc, mb.val))
      [] OTHER -> Fail

ParseMembers(t, i, acc) ==
    IF Len(acc) = 0 /\ Matches(t, i, <<P("]")>>) THEN Got(acc, i + 1)
    ELSE MembersAfter(t, acc, ParseMember(t, i))

\* { name : s , members : [ ... ] }; ms is the member array read
ProductEnd(t, i, ms) ==
    IF ms.ok /\ Matches(t, ms.next, <<P("}")>>)
    THEN Got([name |-> t[i + 3].v, members |-> ms.val], ms.next + 1)
    ELSE Fail

ParseProduct(t, i) ==
    IF ~Matches(t, i, <<P("{"), S("name"), P(":"), Str, P(","),
                        S("members"), P(":"), P("[")>>)
    THEN Fail
    ELSE ProductEnd(t, i, ParseMembers(t, i + 8, <<>>))

RECURSIVE ParseProducts(_, _, _), ProductsAfter(_, _, _)
ProductsAfter(t, acc, pr) ==
    CASE ~pr.ok -> Fail
      [] pr.ok /\ AfterItem(t, pr.next) = "end" ->
             Got(Append(acc, pr.val), pr.next + 1)
      [] pr.ok /\ AfterItem(t, pr.next) = "more" ->
             ParseProducts(t, pr.next + 1, Append(acc, pr.val))
      [] OTHER -> Fail

ParseProducts(t, i, acc) ==
    IF Len(acc) = 0 /\ Matches(t, i, <<P("]")>>) THEN Got(acc, i + 1)
    ELSE ProductsAfter(t, acc, ParseProduct(t, i))

\* the whole text is one manifest object, with nothing after it; ps is the
\* product array read
ManifestEnd(t, ps) ==
    IF ps.ok /\ Matches(t, ps.next, <<P("}")>>) /\ ps.next = Len(t)
    THEN Ok([asn_rule |-> t[8].v, asn_type |-> t[4].v, products |-> ps.val])
    ELSE Raise("JSONDecodeError", NoData)

\* json.load(f): the parsed value, or JSONDecodeError
json_load(t) ==
    IF ~Matches(t, 1, <<P("{"), S("asn_type"), P(":"), Str, P(","),
                        S("asn_rule"), P(":"), Str, P(","),
                        S("products"), P(":"), P("[")>>)
    THEN Raise("JSONDecodeError", NoData)
    ELSE ManifestEnd(t, ParseProducts(t, 13, <<>>))

----------------------------------------------------------------------------
(* The notebook's statements, in cell order.  a names the association the  *)
(* statement works on, x and y its literal arguments.                      *)

Assocs == {"direct", "grismC", "grismR"}

I(o, a, line, x, y) == [op |-> o, a |-> a, line |-> line, x |-> x, y |-> y]

\* the grism cells with the catalog's role assigned after the write
Prog_lateRole == <<
    I("build",    "direct", 506, caldirectfile, DMS_Level3_Base),
    I("settype",  "direct", 507, "Image3", ""),
    I("open_w",   "direct", 509, "", ""),
    I("write",    "direct", 510, "", ""),
    I("open_r",   "direct", 521, "", ""),
    I("load",     "direct", 522, "", ""),
    I("cp",       "direct", 526, "", ""),
    I("pipeline", "direct", 545, "Image3Pipeline", ""),
    I("build",    "grismC", 689, ratespecfileC, DMSLevel2bBase),
    I("settype",  "grismC", 690, "None", ""),
    I("append",   "grismC", 691, "", ""),
    I("setitem",  "grismC", 692, "expname", object_cat_file),
    I("open_w",   "grismC", 694, "", ""),
    I("write",    "grismC", 695, "", ""),
    I("setitem",  "grismC", 693, "exptype", "sourcecat"),
    I("build",    "grismR", 699, ratespecfileR, DMSLevel2bBase),
    I("settype",  "grismR", 700, "None", ""),
    I("append",   "grismR", 701, "", ""),
    I("setitem",  "grismR", 702, "expname", object_cat_file),
    I("open_w",   "grismR", 704, "", ""),
    I("write",    "grismR", 705, "", ""),
    I("setitem",  "grismR", 703, "exptype", "sourcecat"),
    I("cp",       "grismC", 709, "", ""),
    I("cp",       "grismR", 709, "", ""),
    I("cp_cat",   "grismC", 727, "", ""),
    I("pipeline", "grismC", 729, "Spec2Pipeline", ""),
    I("pipeline", "grismR", 730, "Spec2Pipeline", "") >>

\* the Stage 3 cell of the direct image moved below the Stage 2 cell of the
\* grism images
Prog_stage2First == <<
    I("build",    "direct", 506, caldirectfile, DMS_Level3_Base),
    I("settype",  "direct", 507, "Image3", ""),
    I("open_w",   "direct", 509, "", ""),
    I("write",    "direct", 510, "", ""),
    I("open_r",   "direct", 521, "", ""),
    I("load",     "direct", 522, "", ""),
    I("cp",       "direct", 526, "", ""),
    I("build",    "grismC", 689, ratespecfileC, DMSLevel2bBase),
    I("settype",  "grismC", 690, "None", ""),
    I("append",   "grismC", 691, "", ""),
    I("setitem",  "grismC", 692, "expname", object_cat_file),
    I("setitem",  "grismC", 693, "exptype", "sourcecat"),
    I("open_w",   "grismC", 694, "", ""),
    I("write",    "grismC", 695, "", ""),
    I("build",    "grismR", 699, ratespecfileR, DMSLevel2bBase),
    I("settype",  "grismR", 700, "None", ""),
    I("append",   "grismR", 701, "", ""),
    I("setitem",  "grismR", 702, "expname", object_cat_file),
    I("setitem",  "grismR", 703, "exptype", "sourcecat"),
    I("open_w",   "grismR", 704, "", ""),
    I("write",    "grismR", 705, "", ""),
    I("cp",       "grismC", 709, "", ""),
    I("cp",       "grismR", 709, "", ""),
    I("cp_cat",   "grismC", 727, "", ""),
    I("pipeline", "grismC", 729, "Spec2Pipeline", ""),
    I("pipeline", "grismR", 730, "Spec2Pipeline", ""),
    I("pipeline", "direct", 545, "Image3Pipeline", "") >>

\* the grism-R cell pasted from the grism-C cell with one name left unchanged:
\* its append works on association_grismC
Prog_pasteSlip == <<
    I("build",    "direct", 506, caldirectfile, DMS_Level3_Base),
    I("settype",  "direct", 507, "Image3", ""),
    I("open_w",   "direct", 509, "", ""),
    I("write",    "direct", 510, "", ""),
    I("open_r",   "direct", 521, "", ""),
    I("load",     "direct", 522, "", ""),
    I("cp",       "direct", 526, "", ""),
    I("pipeline", "direct", 545, "Image3Pipeline", ""),
    I("build",    "grismC", 689, ratespecfileC, DMSLevel2bBase),
    I("settype",  "grismC", 690, "None", ""),
    I("append",   "grismC", 691, "", ""),
    I("setitem",  "grismC", 692, "expname", object_cat_file),
    I("setitem",  "grismC", 693, "exptype", "sourcecat"),
    I("open_w",   "grismC", 694, "", ""),
    I("write",    "grismC", 695, "", ""),
    I("build",    "grismR", 699, ratespecfileR, DMSLevel2bBase),
    I("settype",  "grismR", 700, "None", ""),
    I("append",   "grismC", 701, "", ""),
    I("setitem",  "grismR", 702, "expname", object_cat_file),
    I("setitem",  "grismR", 703, "exptype", "sourcecat"),
    I("open_w",   "grismR", 704, "", ""),
    I("write",    "grismR", 705, "", ""),
    I("cp",       "grismC", 709, "", ""),
    I("cp",       "grismR", 709, "", ""),
    I("cp_cat",   "grismC", 727, "", ""),
    I("pipeline", "grismC", 729, "Spec2Pipeline", ""),
    I("pipeline", "grismR", 730, "Spec2Pipeline", "") >>

Prog == <<
    I("build",    "direct", 506, caldirectfile, DMS_Level3_Base),
    I("settype",  "direct", 507, "Image3", ""),
    I("open_w",   "direct", 509, "", ""),
    I("write",    "direct", 510, "", ""),
    I("open_r",   "direct", 521, "", ""),
    I("load",     "direct", 522, "", ""),
    I("cp",       "direct", 526, "", ""),
    I("pipeline", "direct", 545, "Image3Pipeline", ""),
    I("build",    "grismC", 689, ratespecfileC, DMSLevel2bBase),
    I("settype",  "grismC", 690, "None", ""),
    I("append",   "grismC", 691, "", ""),
    I("setitem",  "grismC", 692, "expname", object_cat_file),
    I("setitem",  "grismC", 693, "exptype", "sourcecat"),
    I("open_w",   "grismC", 694, "", ""),
    I("write",    "grismC", 695, "", ""),
    I("build",    "grismR", 699, ratespecfileR, DMSLevel2bBase),
    I("settype",  "grismR", 700, "None", ""),
    I("append",   "grismR", 701, "", ""),
    I("setitem",  "grismR", 702, "expname", object_cat_file),
    I("setitem",  "grismR", 703, "exptype", "sourcecat"),
    I("open_w",   "grismR", 704, "", ""),
    I("write",    "grismR", 705, "", ""),
    I("cp",       "grismC", 709, "", ""),
    I("cp",       "grismR", 709, "", ""),
    I("cp_cat",   "grismC", 727, "", ""),
    I("pipeline", "grismC", 729, "Spec2Pipeline", ""),
    I("pipeline", "grismR", 730, "Spec2Pipeline", "") >>

Done == Len(Prog) + 1

\* the path each association is written to, and its copy in outputs/
AsnFile(a) ==
    CASE a = "direct" -> association_direct_file
      [] a = "grismC" -> association_grismC_file
      [] a = "grismR" -> association_grismR_file

ProductName(a) ==
    CASE a = "direct" -> "NIRISS_F115W_direct_dit1"
      [] a = "grismC" -> "NIRISS_F115W_WFSSC_dit1"
      [] a = "grismR" -> "NIRISS_F115W_WFSSR_dit1"

OutputsCopy(a) ==
    CASE a = "direct" -> "outputs/NIRISS_F115W_direct_dit1_stage3.json"
      [] a = "grismC" -> "outputs/NIRISS_F115W_WFSSC_dit1_stage2.json"
      [] a = "grismR" -> "outputs/NIRISS_F115W_WFSSR_dit1_stage2.json"

ManifestFiles == {AsnFile(a) : a \in Assocs}
Files == ManifestFiles \cup {OutputsCopy(a) : a \in Assocs}

\* what a manifest path may hold from an earlier session
Stale == <<S("stale")>>

Running == err = NoErr /\ pc < Done
Cur == Prog[pc]
At_(o) == Running /\ Cur.op = o

\* a statement returned normally / raised e
Next_ == pc' = pc + 1 /\ err' = NoErr
Abort(e) == pc' = pc /\ err' = e

InitNotebook ==
    /\ pc = 1
    /\ asn = [a \in Assocs |-> NoAsn]
    /\ cwd \in BOOLEAN
    /\ fs \in [Files -> {NoFile, Stale}]
    /\ \A f \in Files : (~cwd \/ f \notin ManifestFiles) => fs[f] = NoFile
    /\ handles = {}
    /\ err = NoErr
    /\ data = NoData
    /\ calls = <<>>
    /\ dumped = {}
    /\ prior = NoFile

\* association_X = asn_from_list.asn_from_list([file], rule=..., product_name=...)
Build ==
    /\ At_("build")
    /\ LET r == asn_from_list(<<Cur.x>>, Cur.y, ProductName(Cur.a)) IN
       IF r.err = NoErr
       THEN asn' = [asn EXCEPT ![Cur.a] = r.val] /\ Next_
       ELSE asn' = asn /\ Abort(r.err)
    /\ UNCHANGED <<fs, cwd, handles, data, calls, dumped, prior, man, pre, op, text, loaded, at>>

\* association_X['asn_type'] = tag
SetAsnType ==
    /\ At_("settype")
    /\ asn' = [asn EXCEPT ![Cur.a] = set_asn_type(@, Cur.x).val]
    /\ Next_
    /\ UNCHANGED <<fs, cwd, handles, data, calls, dumped, prior, man, pre, op, text, loaded, at>>

\* association_X['products'][0]['members'].append({})
AppendEmpty ==
    /\ At_("append")
    /\ LET r == MembersAppendEmpty(asn[Cur.a], 0) IN
       /\ asn' = [asn EXCEPT ![Cur.a] = r.val]
       /\ IF r.err = NoErr THEN Next_ ELSE Abort(r.err)
    /\ UNCHANGED <<fs, cwd, handles, data, calls, dumped, prior, man, pre, op, text, loaded, at>>

\* association_X['products'][0]['members'][1][key] = value
SetItem ==
    /\ At_("setitem")
    /\ LET r == MemberSetItem(asn[Cur.a], 0, Cur.x, Cur.y) IN
       /\ asn' = [asn EXCEPT ![Cur.a] = r.val]
       /\ IF r.err = NoErr THEN Next_ ELSE Abort(r.err)
    /\ UNCHANGED <<fs, cwd, handles, data, calls, dumped, prior, man, pre, op, text, loaded, at>>


----------------------------------------------------------------------------
(* Files.                                                                  *)

\* an open that creates the file whether or not its directory exists
open_w_creates(files, dirOk, path) == Ok([files EXCEPT ![path] = <<>>])

\* open(path, 'w'): FileNotFoundError (an OSError, Python's IOError) when the
\* directory is missing, and then nothing is created; otherwise the file is
\* created or truncated, before anything is written.
open_w(files, dirOk, path) ==
    IF ~dirOk THEN Raise("FileNotFoundError", files)
    ELSE Ok([files EXCEPT ![path] = <<>>])

\* outfile.write(txt) and the close at the end of the with block: all of txt
\* reaches the file, or the write raises with only a proper prefix of it there.
write_outcomes(files, path, txt) ==
    {Ok([files EXCEPT ![path] = txt])}
    \cup {Raise("OSError", [files EXCEPT ![path] = SubSeq(txt, 1, j)]) :
              j \in 0..(Len(txt) - 1)}

\* open(path): FileNotFoundError when there is no such file
open_r(files, path) ==
    IF files[path] = NoFile THEN Raise("FileNotFoundError", files) ELSE Ok(files)

Handle(var, path) == [var |-> var, path |-> path]

\* with open(association_X_file, 'w') as outfile:
OpenWrite ==
    /\ At_("open_w")
    /\ prior' = fs[AsnFile(Cur.a)]
    /\ LET r == open_w(fs, cwd, AsnFile(Cur.a)) IN
       /\ fs' = r.val
       /\ IF r.err = NoErr
          THEN handles' = handles \cup {Handle("outfile", AsnFile(Cur.a))} /\ Next_
          ELSE handles' = handles /\ Abort(r.err)
    /\ UNCHANGED <<asn, cwd, data, calls, dumped, man, pre, op, text, loaded, at>>

\* a block that leaves its handle open, as a bare open() without close() does
with_exit_leaks(hs, var) == hs

\* the handles left open when the with block of `var` is left, by any path
with_exit(hs, var) == {h \in hs : h.var # var}

\*     outfile.write(association_X.dump()[1])
\* dump() is evaluated first, with the file already open and truncated; it
\* may raise.  The with block closes outfile however it is left.
WriteDump ==
    /\ At_("write")
    /\ handles' = with_exit(handles, "outfile")
    /\ \/ /\ dumped' = dumped \cup {Cur.a}
          /\ \E r \in write_outcomes(fs, AsnFile(Cur.a), dump(asn[Cur.a])) :
                /\ fs' = r.val
                /\ IF r.err = NoErr THEN Next_ ELSE Abort(r.err)
       \/ /\ Abort("SerializeError")
          /\ UNCHANGED <<fs, dumped>>
    /\ UNCHANGED <<asn, cwd, data, calls, prior, man, pre, op, text, loaded, at>>

\* f = open(association_direct_file)
OpenRead ==
    /\ At_("open_r")
    /\ LET r == open_r(fs, AsnFile(Cur.a)) IN
       IF r.err = NoErr
       THEN handles' = handles \cup {Handle("f", AsnFile(Cur.a))} /\ Next_
       ELSE handles' = handles /\ Abort(r.err)
    /\ UNCHANGED <<asn, fs, cwd, data, calls, dumped, prior, man, pre, op, text, loaded, at>>

\* data = json.load(f); print(data)      (f is not closed)
JsonLoad ==
    /\ At_("load")
    /\ LET r == json_load(fs[AsnFile(Cur.a)]) IN
       IF r.err = NoErr
       THEN data' = r.val /\ Next_
       ELSE data' = data /\ Abort(r.err)
    /\ UNCHANGED <<asn, fs, cwd, handles, calls, dumped, prior, man, pre, op, text, loaded, at>>

\* os.system('cp ' + association_X_file + ' outputs/'): the copy is made, or
\* cp fails; os.system raises in neither case.
CopyToOutputs ==
    /\ At_("cp")
    /\ \/ fs' = [fs EXCEPT ![OutputsCopy(Cur.a)] = fs[AsnFile(Cur.a)]]
       \/ fs' = fs
    /\ Next_
    /\ UNCHANGED <<asn, cwd, handles, data, calls, dumped, prior, man, pre, op, text, loaded, at>>

\* os.system('cp ' + object_cat_file + ' .'): the catalog is not a manifest file
CopyCatalog ==
    /\ At_("cp_cat")
    /\ Next_
    /\ UNCHANGED <<asn, fs, cwd, handles, data, calls, dumped, prior, man, pre, op, text, loaded, at>>

\* stageN = XPipeline.call(association_X_file, save_results=True, output_dir='outputs')
PipelineCall ==
    /\ At_("pipeline")
    /\ calls' = Append(calls, [pipeline |-> Cur.x, file |-> AsnFile(Cur.a),
                               content |-> fs[AsnFile(Cur.a)]])
    /\ \/ Next_
       \/ Abort("PipelineError")
    /\ UNCHANGED <<asn, fs, cwd, handles, data, dumped, prior, man, pre, op, text, loaded, at>>

InitBuilderIdle ==
    /\ man = NoAsn
    /\ pre = NoAsn
    /\ op = [name |-> "init", err |-> NoErr]
    /\ text = NoFile
    /\ loaded = NoData

\* the two grism callers of SpecPair, neither started
Callers == {"grismC", "grismR"}
InitPairIdle == at = [a \in Callers |-> [step |-> 0, err |-> NoErr]]

Init == InitNotebook /\ InitBuilderIdle /\ InitPairIdle

Next ==
    \/ Build
    \/ SetAsnType
    \/ AppendEmpty
    \/ SetItem
    \/ OpenWrite
    \/ WriteDump
    \/ OpenRead
    \/ JsonLoad
    \/ CopyToOutputs
    \/ CopyCatalog
    \/ PipelineCall

Spec == Init /\ [][Next]_vars

----------------------------------------------------------------------------
(* SpecBuilder: the same statements as operations on one manifest, with    *)
(* their inputs drawn from bounded sets.                                   *)

BPaths == {ratespecfileC, object_cat_file}
BNames == {"NIRISS_F115W_WFSSC_dit1", "NIRISS_F115W_WFSSR_dit1"}
BTags == {"Image3", "None"}
BRoles == {"sourcecat"}
\* product indices: with one product, 0 and -1 index it, 1 and -2 do not
BIndices == {-2, -1, 0, 1}

\* the lists of at most n paths
RECURSIVE ListsUpTo(_)
ListsUpTo(n) ==
    IF n = 0 THEN {<<>>}
    ELSE LET shorter == ListsUpTo(n - 1) IN
         shorter \cup {Append(l, x) : l \in shorter, x \in BPaths}

InitNotebookIdle ==
    /\ pc = Done
    /\ asn = [a \in Assocs |-> NoAsn]
    /\ cwd = TRUE
    /\ fs = [f \in Files |-> NoFile]
    /\ handles = {}
    /\ err = NoErr
    /\ data = NoData
    /\ calls = <<>>
    /\ dumped = {}
    /\ prior = NoFile

InitBuilder == InitNotebookIdle /\ InitBuilderIdle /\ InitPairIdle

\* a mutation makes the earlier text and its reading stale
Forget == text' = NoFile /\ loaded' = NoData

\* man = asn_from_list.asn_from_list(items, rule=rule, product_name=pname)
\* The assignment does not happen when the call raises.
BBuild ==
    /\ \E items \in ListsUpTo(MaxLen), rule \in Rules, pname \in BNames :
          LET r == asn_from_list(items, rule, pname) IN
          /\ man' = IF r.err = NoErr THEN r.val ELSE man
          /\ op' = [name |-> "build", err |-> r.err, items |-> items,
                    rule |-> rule, pname |-> pname]
    /\ pre' = man
    /\ Forget
    /\ UNCHANGED nbVars
    /\ UNCHANGED at

\* man['asn_type'] = tag
BSetAsnType ==
    /\ man # NoAsn
    /\ \E tag \in BTags :
          LET r == set_asn_type(man, tag) IN
          /\ man' = r.val
          /\ op' = [name |-> "set_asn_type", err |-> r.err, tag |-> tag]
    /\ pre' = man
    /\ Forget
    /\ UNCHANGED nbVars
    /\ UNCHANGED at

\* man['products'][k]['members'].append({}) and the two assignments after it
BAppendMember ==
    /\ man # NoAsn
    /\ \A i \in 1..Len(man.products) : Len(man.products[i].members) < MaxMembers
    /\ \E k \in BIndices, path \in BPaths, role \in BRoles :
          LET r == append_member(man, k, path, role) IN
          /\ man' = r.val
          /\ op' = [name |-> "append_member", err |-> r.err, k |-> k,
                    path |-> path, role |-> role]
    /\ pre' = man
    /\ Forget
    /\ UNCHANGED nbVars
    /\ UNCHANGED at

\* text = man.dump()[1]
BSerialize ==
    /\ man # NoAsn
    /\ text' = dump(man)
    /\ op' = [name |-> "serialize", err |-> NoErr]
    /\ pre' = man
    /\ UNCHANGED <<man, loaded>>
    /\ UNCHANGED nbVars
    /\ UNCHANGED at

\* loaded = json.load(text)
BDeserialize ==
    /\ text # NoFile
    /\ LET r == json_load(text) IN
       /\ loaded' = r.val
       /\ op' = [name |-> "deserialize", err |-> r.err]
    /\ pre' = man
    /\ UNCHANGED <<man, text>>
    /\ UNCHANGED nbVars
    /\ UNCHANGED at

NextBuilder ==
    \/ BBuild
    \/ BSetAsnType
    \/ BAppendMember
    \/ BSerialize
    \/ BDeserialize

SpecBuilder == InitBuilder /\ [][NextBuilder]_vars

----------------------------------------------------------------------------
(* SpecPair: the grism-C and the grism-R cell run by two callers.  Each    *)
(* caller takes its cell's steps in order (build, set asn_type, append the *)
(* catalog, persist); the steps of the two are interleaved in every order. *)
(* The statements are those of Prog, each working on the variable it names.*)

\* caller a's cell starts at its build; Stmt(a, j) is its j-th statement after
CellFirst(a) == CHOOSE i \in 1..Len(Prog) : Prog[i].op = "build" /\ Prog[i].a = a
Stmt(a, j) == Prog[CellFirst(a) + j]

\* the variable a bound to the result r of a statement, unless it raised
Bind(A, a, r) ==
    [err |-> r.err, val |-> IF r.err = NoErr THEN [A EXCEPT ![a] = r.val] ELSE A]

\* one statement on the association variables A; a variable not yet bound
\* raises NameError
ExecStmt(A, ins) ==
    CASE ins.op = "build" ->
             Bind(A, ins.a, asn_from_list(<<ins.x>>, ins.y, ProductName(ins.a)))
      [] ins.op # "build" /\ A[ins.a] = NoAsn -> Raise("NameError", A)
      [] ins.op = "settype" /\ A[ins.a] # NoAsn ->
             Bind(A, ins.a, set_asn_type(A[ins.a], ins.x))
      [] ins.op = "append" /\ A[ins.a] # NoAsn ->
             Bind(A, ins.a, MembersAppendEmpty(A[ins.a], 0))
      [] ins.op = "setitem" /\ A[ins.a] # NoAsn ->
             Bind(A, ins.a, MemberSetItem(A[ins.a], 0, ins.x, ins.y))

\* the next statement, unless the one before raised
Then(r, ins) == IF r.err # NoErr THEN r ELSE ExecStmt(r.val, ins)

AtStep(a, n) == at[a].step = n /\ at[a].err = NoErr
Stepped(a, e) ==
    at' = [at EXCEPT ![a] = IF e = NoErr THEN [step |-> @.step + 1, err |-> NoErr]
                                         ELSE [step |-> @.step, err |-> e]]

\* the working directory may be missing, and either destination may hold a
\* file of an earlier session
InitPair ==
    /\ pc = Done
    /\ asn = [a \in Assocs |-> NoAsn]
    /\ cwd \in BOOLEAN
    /\ fs \in [Files -> {NoFile, Stale}]
    /\ \A f \in Files :
          (~cwd \/ f \notin {AsnFile(a) : a \in Callers}) => fs[f] = NoFile
    /\ handles = {}
    /\ err = NoErr
    /\ data = NoData
    /\ calls = <<>>
    /\ dumped = {}
    /\ prior = NoFile
    /\ InitBuilderIdle
    /\ InitPairIdle

\* association_X = asn_from_list.asn_from_list([ratespecfileX], rule=DMSLevel2bBase, ...)
PBuild(a) ==
    /\ AtStep(a, 0)
    /\ asn' = ExecStmt(asn, Stmt(a, 0)).val
    /\ Stepped(a, ExecStmt(asn, Stmt(a, 0)).err)
    /\ UNCHANGED <<pc, fs, cwd, handles, err, data, calls, dumped, prior, man, pre, op, text, loaded>>

\* association_X['asn_type'] = 'None'
PSetAsnType(a) ==
    /\ AtStep(a, 1)
    /\ asn' = ExecStmt(asn, Stmt(a, 1)).val
    /\ Stepped(a, ExecStmt(asn, Stmt(a, 1)).err)
    /\ UNCHANGED <<pc, fs, cwd, handles, err, data, calls, dumped, prior, man, pre, op, text, loaded>>

\* the append of {} and the two assignments to ['members'][1]
PAppendResult(a) == Then(Then(ExecStmt(asn, Stmt(a, 2)), Stmt(a, 3)), Stmt(a, 4))

PAppendMember(a) ==
    /\ AtStep(a, 2)
    /\ asn' = PAppendResult(a).val
    /\ Stepped(a, PAppendResult(a).err)
    /\ UNCHANGED <<pc, fs, cwd, handles, err, data, calls, dumped, prior, man, pre, op, text, loaded>>

\* with open(association_X_file, 'w') as outfile:
\*     outfile.write(association_X.dump()[1])
\* as one step: the open, dump(), the write and the close of the with block
PPersist(a) ==
    /\ AtStep(a, 3)
    /\ prior' = fs[AsnFile(Stmt(a, 5).a)]
    /\ IF open_w(fs, cwd, AsnFile(Stmt(a, 5).a)).err # NoErr
       THEN /\ Stepped(a, open_w(fs, cwd, AsnFile(Stmt(a, 5).a)).err)
            /\ UNCHANGED <<fs, dumped>>
       ELSE \/ /\ dumped' = dumped \cup {Stmt(a, 6).a}
               /\ \E w \in write_outcomes(open_w(fs, cwd, AsnFile(Stmt(a, 5).a)).val,
                                           AsnFile(Stmt(a, 6).a),
                                           dump(asn[Stmt(a, 6).a])) :
                     fs' = w.val /\ Stepped(a, w.err)
            \/ /\ fs' = open_w(fs, cwd, AsnFile(Stmt(a, 5).a)).val
               /\ Stepped(a, "SerializeError")
               /\ UNCHANGED dumped
    /\ UNCHANGED <<pc, asn, cwd, handles, err, data, calls, man, pre, op, text, loaded>>

NextPair ==
    \/ \E a \in Callers : PBuild(a)
    \/ \E a \in Callers : PSetAsnType(a)
    \/ \E a \in Callers : PAppendMember(a)
    \/ \E a \in Callers : PPersist(a)

SpecPair == InitPair /\ [][NextPair]_vars

----------------------------------------------------------------------------
(* Properties.                                                             *)

\* position in Prog of the statement that writes association a, and whether
\* it has returned normally
WriteIdx(a) == CHOOSE i \in 1..Len(Prog) : Prog[i].op = "write" /\ Prog[i].a = a
Persisted(a) == pc > WriteIdx(a)
LoadIdx == CHOOSE i \in 1..Len(Prog) : Prog[i].op = "load"

\* k indexes a list of n elements (Python counts a negative k from the end)
ValidIndex(n, k) == -n <= k /\ k < n

Member(path, role) == [expname |-> path, exptype |-> role]

\* C1 (SpecBuilder): build of a non-empty list L succeeds and yields exactly one
\* product whose members are the paths of L, in L's order and as many as L
\* has (nothing reordered, nothing dropped), each with the science role.
C1_BuildKeepsList ==
    (op.name = "build" /\ Len(op.items) > 0) =>
        /\ op.err = NoErr
        /\ Len(man.products) = 1
        /\ Len(man.products[1].members) = Len(op.items)
        /\ \A i \in 1..Len(op.items) :
              man.products[1].members[i] = Member(op.items[i], ScienceRole)

\* a build of a list that holds the same path twice: both are kept
C1_Witness ==
    /\ op.name = "build"
    /\ op.err = NoErr
    /\ op.items = <<ratespecfileC, ratespecfileC>>
    /\ Len(man.products[1].members) = 2

\* C2 (SpecBuilder), as claimed: append_member with a product index k,
\* 0 <= k < number of products, succeeds, leaves the product's earlier
\* members as they were, adds exactly one member, last, with the given path
\* and role, and changes nothing else.
C2_AppendAddsLast ==
    (op.name = "append_member" /\ op.k >= 0 /\ op.k < Len(pre.products)) =>
        /\ op.err = NoErr
        /\ man = [pre EXCEPT !.products[op.k + 1].members =
                                 Append(@, Member(op.path, op.role))]

\* C3 (Spec): once a grism manifest is written, the text at its path reads
\* back as one product with exactly two members: the rate file with the
\* science role, then the catalog with role "sourcecat".
C3_GrismManifestText ==
    \A a \in {"grismC", "grismR"} :
        Persisted(a) =>
            /\ json_load(fs[AsnFile(a)]).err = NoErr
            /\ Len(json_load(fs[AsnFile(a)]).val.products) = 1
            /\ json_load(fs[AsnFile(a)]).val.products[1].members =
                  << Member(IF a = "grismC" THEN ratespecfileC ELSE ratespecfileR,
                            ScienceRole),
                     Member(object_cat_file, "sourcecat") >>

C3_Witness ==
    /\ Persisted("grismC")
    /\ Persisted("grismR")
    /\ fs[association_grismR_file] = dump(asn["grismR"])

\* C4 (SpecBuilder): reading back the text serialize produced for a manifest
\* succeeds and gives a manifest equal to it in every field.
C4_RoundTrip ==
    op.name = "deserialize" => (op.err = NoErr /\ loaded = man)

\* a round trip of a manifest with a changed asn_type and an appended member
C4_Witness ==
    /\ op.name = "deserialize"
    /\ man.asn_type = "None"
    /\ Len(man.products[1].members) = 2
    /\ man.products[1].members[2] = Member(object_cat_file, "sourcecat")

\* the statement that stopped the run is the open or the write of a persist
PersistFailed == err # NoErr /\ Prog[pc].op \in {"open_w", "write"}

\* C5 (Spec), as claimed: when persist fails, the error is an IOError and the
\* destination holds what it held before the call, or no file.
C5_PersistAtomic ==
    PersistFailed =>
        /\ err \in {"OSError", "FileNotFoundError"}
        /\ fs[AsnFile(Prog[pc].a)] \in {prior, NoFile}

\* C6 (Spec): open(path, 'w') with the parent directory missing raises
\* FileNotFoundError (an IOError), creates no file and no directory, and
\* leaves no handle.
C6_MissingDirectory ==
    [][(At_("open_w") /\ ~cwd) =>
          /\ err' = "FileNotFoundError"
          /\ fs' = fs
          /\ cwd' = cwd
          /\ handles' = handles]_vars

C6_Witness ==
    /\ ~cwd
    /\ err = "FileNotFoundError"
    /\ Prog[pc].op = "open_w"
    /\ fs[association_direct_file] = NoFile

\* C7 (SpecBuilder): build of the empty list fails with InvalidInputError,
\* whatever the rule and the product name, and produces no manifest: the
\* variable keeps what it held and there is no text.
C7_EmptyListRefused ==
    (op.name = "build" /\ Len(op.items) = 0) =>
        /\ op.err = "InvalidInputError"
        /\ man = pre
        /\ text = NoFile

C7_Witness ==
    /\ op.name = "build"
    /\ Len(op.items) = 0
    /\ op.rule = DMSLevel2bBase
    /\ man = NoAsn

\* C8 (SpecBuilder): append_member with an index that does not index
\* manifest.products raises IndexError and leaves the manifest as it was.
C8_BadIndexNoChange ==
    (op.name = "append_member" /\ ~ValidIndex(Len(pre.products), op.k)) =>
        (op.err = "IndexError" /\ man = pre)

C8_Witness ==
    /\ op.name = "append_member"
    /\ op.k = 1
    /\ op.err = "IndexError"
    /\ Len(man.products[1].members) = 2

\* C9 (Spec), as claimed: a handle is open only while the statement that
\* uses it is pending; once the persist and the read-back are over, normally
\* or by an error, none is.
C9_HandlesClosed ==
    \A h \in handles :
        /\ Running
        /\ \/ h.var = "outfile" /\ Cur.op = "write"
           \/ h.var = "f" /\ Cur.op = "load"

\* C10 (Spec): a manifest is not changed once its dump() has been evaluated,
\* and the text a completed write left at its path is, from then on, the
\* serialization of the manifest in memory.
C10_ImmutableOnceSerialized ==
    [][/\ \A a \in dumped : asn'[a] = asn[a]
       /\ \A a \in Assocs :
             (pc' > WriteIdx(a)) => fs'[AsnFile(a)] = dump(asn'[a])]_vars

C10_Witness ==
    /\ pc = Done
    /\ dumped = Assocs
    /\ fs[association_grismC_file] = dump(asn["grismC"])

\* C11 (SpecBuilder): the assignment of asn_type never fails, whatever the
\* tag (the string "None", which no rule supports, included), sets asn_type
\* to the tag, and leaves the rule and the products (their names, their
\* members and the members' order) as they were.
C11_SetAsnTypeFrame ==
    op.name = "set_asn_type" =>
        /\ op.err = NoErr
        /\ man.asn_type = op.tag
        /\ man.asn_rule = pre.asn_rule
        /\ man.products = pre.products

\* the tag "None" set on a manifest that has two members and another tag
C11_Witness ==
    /\ op.name = "set_asn_type"
    /\ op.tag = "None"
    /\ pre.asn_type = "Image3"
    /\ Len(pre.products[1].members) = 2
    /\ man.asn_type = "None"
\* the file a grism cell leaves when it runs alone: its rate file as science
\* member, then the catalog as sourcecat, asn_type "None", rule DMSLevel2bBase
AloneFile(a) ==
    dump([asn_rule |-> DMSLevel2bBase,
          asn_type |-> "None",
          products |-> << [name |-> ProductName(a),
                           members |-> << Member(IF a = "grismC" THEN ratespecfileC
                                                                 ELSE ratespecfileR,
                                                 ScienceRole),
                                          Member(object_cat_file, "sourcecat") >>] >>])

C14_ProductsNonEmpty ==
    man # NoAsn =>
        /\ Len(man.products) >= 1
        /\ \A i \in 1..Len(man.products) : Len(man.products[i].members) >= 1

\* a manifest built from one path, after an append_member that raised
C14_Witness ==
    /\ op.name = "append_member"
    /\ op.err = "IndexError"
    /\ man # NoAsn
    /\ Len(man.products[1].members) = 1
\* the paths a manifest text lists with role "sourcecat"
SourceCatalogs(t) ==
    IF json_load(t).err # NoErr THEN {}
    ELSE {json_load(t).val.products[1].members[i].expname :
              i \in {j \in 1..Len(json_load(t).val.products[1].members) :
                        json_load(t).val.products[1].members[j].exptype = "sourcecat"}}

\* an Image3Pipeline call was made before the i-th pipeline call
AfterStage3(i) == \E j \in 1..(i - 1) : calls[j].pipeline = "Image3Pipeline"

AssocOf(file) == CHOOSE a \in Assocs : AsnFile(a) = file
Called(a) == \E i \in 1..Len(calls) : calls[i].file = AsnFile(a)

\* C16 (Spec): when a pipeline call is about to be made, the write of the
\* path it takes has returned, the path holds the whole serialization of its
\* manifest and no handle that wrote it is open; the text every call was
\* given is that serialization; and between the write and the call the file
\* is not written again.
C16_FileBeforeStage ==
    /\ [](At_("pipeline") =>
            /\ Persisted(Cur.a)
            /\ fs[AsnFile(Cur.a)] = dump(asn[Cur.a])
            /\ \A h \in handles : ~(h.var = "outfile" /\ h.path = AsnFile(Cur.a)))
    /\ [](\A i \in 1..Len(calls) :
            calls[i].content = dump(asn[AssocOf(calls[i].file)]))
    /\ [][\A a \in Assocs :
             (Persisted(a) /\ ~Called(a)) => fs'[AsnFile(a)] = fs[AsnFile(a)]]_vars

\* the three calls made, each on the file its cell wrote
C16_Witness ==
    /\ Len(calls) = 3
    /\ calls[1].file = association_direct_file
    /\ calls[2].file = association_grismC_file
    /\ calls[3].file = association_grismR_file
    /\ calls[2].content = dump(asn["grismC"])
    /\ handles = {Handle("f", association_direct_file)}
\* every member of the manifest has a path and a role
Complete(m) ==
    \A i \in 1..Len(m.products) :
        \A j \in 1..Len(m.products[i].members) :
            /\ m.products[i].members[j].expname # Absent
            /\ m.products[i].members[j].exptype # Absent

\* C17 (Spec): whenever dump() is evaluated on a manifest, every member of
\* the manifest has both a path and a role (the {} just appended and the
\* member with only a path are never serialized), and so has every member
\* of every manifest text a write left on disk.
C17_NoHalfMemberSerialized ==
    /\ [][\A a \in dumped' \ dumped : Complete(asn[a])]_vars
    /\ [](\A a \in Assocs :
            Persisted(a) => /\ json_load(fs[AsnFile(a)]).err = NoErr
                            /\ Complete(json_load(fs[AsnFile(a)]).val))

\* the grism-C manifest written, with its appended member
C17_Witness ==
    /\ "grismC" \in dumped
    /\ Persisted("grismC")
    /\ Len(json_load(fs[association_grismC_file]).val.products[1].members) = 2
    /\ "grismR" \notin dumped
\* the manifest is what build returns for some non-empty list of paths, up
\* to its asn_type
AsBuilt(m) ==
    /\ m # NoAsn
    /\ Len(m.products) = 1
    /\ Len(m.products[1].members) >= 1
    /\ \A j \in 1..Len(m.products[1].members) :
          m.products[1].members[j].exptype = ScienceRole

\* C18 (SpecBuilder), as claimed: on a manifest built from any non-empty
\* list, the append of {} followed by the two assignments at position 1
\* gives what append_member(manifest, 0, path, role) is specified to give:
\* the science members as they were, then the new member with the path and
\* the role.
C18_FixedPositionIsAppend ==
    (op.name = "append_member" /\ op.k = 0 /\ AsBuilt(pre)) =>
        /\ op.err = NoErr
        /\ \A j \in 1..Len(pre.products[1].members) :
              man.products[1].members[j] = pre.products[1].members[j]
        /\ man.products[1].members[Len(pre.products[1].members) + 1] =
              Member(op.path, op.role)

====
